---- MODULE Spec2Model ----
(***************************************************************************)
(* Model of the event store of lindyhop-aachen: the Locations and Events   *)
(* identifier maps, the REST handlers of src/main.rs that run on them      *)
(* under one RwLock, the GraphQL mutations of src/store/mod.rs, and the    *)
(* schedule queries used by src/website.rs.                                *)
(* The REST handlers and the GraphQL mutations are two surfaces of one      *)
(* store: both act on the same Locations map.                               *)
(*                                                                         *)
(* Raw identifiers (UUIDs) are small integers; their order is the byte     *)
(* order of the Binary id column.  A freshly minted UUID is any raw id     *)
(* that is not a key of the map (collisions of random 128-bit values are   *)
(* not modelled).  Instants are minutes since 2019-04-01T00:00.            *)
(***************************************************************************)
EXTENDS Integers, Sequences, FiniteSets, TLC

\* ------------------------------------------------------------------ bounds
NumLocationIds == 2
NumEventIds == 2

LocationIds == 1..NumLocationIds
EventIds == 1..NumEventIds

\* ------------------------------------------------------------- data model
None == 0

LocationNames == {"Chico Mendes", "Sencillito"}

Location(name) == [name |-> name, address |-> "Aachen"]

LocationValues == {Location(n) : n \in LocationNames}

Occurrence(start, duration, location_id) ==
    [start |-> start, duration |-> duration, location_id |-> location_id]

Event(title, occurrences) == [title |-> title, occurrences |-> occurrences]

MinutesPerDay == 24 * 60

\* NaiveDate::from_ymd for the months the seed data uses, as days since 2019-04-01
from_ymd(y, m, d) == IF m = 4 THEN d - 1 ELSE 30 + (d - 1)

and_hms(day, h, mi, s) == day * MinutesPerDay + h * 60 + mi

SeedDuration == 90

SeedOccurrence(m, d, location_id) ==
    Occurrence(and_hms(from_ymd(2019, m, d), 20, 30, 0), SeedDuration, location_id)

SocialDance(chico_id, sencillito_id) ==
    Event("Social Dance",
          << SeedOccurrence(4, 2, chico_id), SeedOccurrence(4, 3, chico_id),
             SeedOccurrence(4, 4, chico_id), SeedOccurrence(4, 8, sencillito_id),
             SeedOccurrence(4, 15, chico_id), SeedOccurrence(4, 16, chico_id),
             SeedOccurrence(4, 21, chico_id), SeedOccurrence(5, 10, chico_id),
             SeedOccurrence(5, 15, chico_id), SeedOccurrence(5, 20, chico_id) >>)

Anfaengerkurs(chico_id, sencillito_id) ==
    Event("Anfaengerkurs",
          << SeedOccurrence(4, 2, chico_id), SeedOccurrence(4, 8, sencillito_id),
             SeedOccurrence(4, 15, chico_id), SeedOccurrence(4, 16, chico_id),
             SeedOccurrence(4, 21, chico_id), SeedOccurrence(5, 10, chico_id),
             SeedOccurrence(5, 15, chico_id), SeedOccurrence(5, 20, chico_id) >>)

\* Request bodies of create_event / update_event: an event without occurrences,
\* or with one occurrence at any raw location id (known to the store or not).
NewEvents ==
    {Event("Workshop", << >>)} \cup
    {Event("Workshop", << SeedOccurrence(4, 2, l) >>) : l \in LocationIds}

\* ----------------------------------------------------------------- state
VARIABLES
    locations,  \* the Locations map: raw id -> Location
    events,     \* the Events map: raw id -> Event
    request,    \* the request the last handler served
    response,   \* and its answer
    now,        \* the wall clock
    schedule,   \* the groups the schedule page last rendered
    overview,   \* the events the events page last rendered
    lock,       \* the RwLock around the store
    handlers    \* where each request being served stands in its handler

vars == << locations, events, request, response, now, schedule, overview,
           lock, handlers >>

workers == << lock, handlers >>

served == << request, response, now, schedule, overview >>

store == << locations, events >>

pages == << now, schedule, overview >>

\* --------------------------------------------------------- identifier map
EmptyMap == [x \in {} |-> None]

validate(map, raw_id) == IF raw_id \in DOMAIN map THEN raw_id ELSE None

get(map, id) == map[id]

set(map, id, value) == [map EXCEPT ![id] = value]

insert(map, id, value) ==
    [k \in DOMAIN map \cup {id} |-> IF k = id THEN value ELSE map[k]]

remove(map, id) == [k \in DOMAIN map \ {id} |-> map[k]]

\* ------------------------------------------------------------ event store
references(event, id) ==
    \E i \in 1..Len(event.occurrences) : event.occurrences[i].location_id = id

dependent_events(evs, id) == {e \in DOMAIN evs : references(evs[e], id)}

\* Store::delete_location: refuse while some event has an occurrence at id
Err(payload) == [ok |-> FALSE, value |-> payload]

Ok(payload) == [ok |-> TRUE, value |-> payload]

Store_delete_location(locs, evs, id) ==
    LET dependents == dependent_events(evs, id)
    IN  IF dependents # {}
        THEN [result |-> Err(dependents), locations |-> locs]
        ELSE [result |-> Ok(get(locs, id)), locations |-> remove(locs, id)]

\* ------------------------------------------------- requests and responses
Request(op, uuid, body) == [op |-> op, uuid |-> uuid, body |-> body]

Response(status, body) == [status |-> status, body |-> body]

NoBody == "-"

NoPage == [rendered |-> FALSE]

Page(filter, result) == [rendered |-> TRUE, filter |-> filter, result |-> result]

\* two requests are served at a time
Handlers == {"h1", "h2"}

NoHandler == "-"

Unlocked == [writer |-> NoHandler, readers |-> {}, poisoned |-> FALSE]

Idle == [pc |-> "idle", op |-> "-", id |-> None]

Panicked == [pc |-> "panicked", op |-> "-", id |-> None]

\* main() seeds two locations and two events; their ids are the first two raw
\* ids of each map, minted in either order.
SeedIds == 1..Cardinality(LocationNames)

Init ==
    \E chico_id \in SeedIds, sencillito_id \in SeedIds :
    \E social_id \in SeedIds, kurs_id \in SeedIds :
        /\ chico_id # sencillito_id
        /\ social_id # kurs_id
        /\ locations = insert(insert(EmptyMap, chico_id, Location("Chico Mendes")),
                              sencillito_id, Location("Sencillito"))
        /\ events = insert(insert(EmptyMap, social_id,
                                  SocialDance(chico_id, sencillito_id)),
                           kurs_id, Anfaengerkurs(chico_id, sencillito_id))
        /\ request = Request("main", None, NoBody)
        /\ response = Response("-", NoBody)
        /\ now = 0
        /\ schedule = NoPage
        /\ overview = NoPage
        /\ lock = Unlocked
        /\ handlers = [h \in Handlers |-> Idle]

\* ------------------------------------------- REST handlers of src/main.rs
\* Each handler holds the store's lock from its first to its last statement,
\* so in this specification a handler is one step.
create_event ==
    \E new_event \in NewEvents, id \in EventIds \ DOMAIN events :
        /\ events' = insert(events, id, new_event)
        /\ request' = Request("create_event", None, new_event)
        /\ response' = Response("200", id)
        /\ UNCHANGED locations
        /\ UNCHANGED << pages, workers >>

read_event ==
    \E uuid \in EventIds :
        LET id == validate(events, uuid)
        IN  /\ request' = Request("read_event", uuid, NoBody)
            /\ response' = IF id = None THEN Response("404", NoBody)
                           ELSE Response("200", get(events, id))
            /\ UNCHANGED << locations, events >>
            /\ UNCHANGED << pages, workers >>

update_event ==
    \E uuid \in EventIds, new_event \in NewEvents :
        LET id == validate(events, uuid)
        IN  /\ request' = Request("update_event", uuid, new_event)
            /\ IF id = None
               THEN /\ response' = Response("404", NoBody)
                    /\ UNCHANGED events
               ELSE /\ events' = set(events, id, new_event)
                    /\ response' = Response("200", get(events', id))
            /\ UNCHANGED locations
            /\ UNCHANGED << pages, workers >>

\* a handler that answers with the stored event but leaves it in the map
delete_event_keeps ==
    \E uuid \in EventIds :
        LET id == validate(events, uuid)
        IN  /\ request' = Request("delete_event", uuid, NoBody)
            /\ response' = IF id = None THEN Response("404", NoBody)
                           ELSE Response("200", get(events, id))
            /\ UNCHANGED << locations, events >>
            /\ UNCHANGED << pages, workers >>

delete_event ==
    \E uuid \in EventIds :
        LET id == validate(events, uuid)
        IN  /\ request' = Request("delete_event", uuid, NoBody)
            /\ IF id = None
               THEN /\ response' = Response("404", NoBody)
                    /\ UNCHANGED events
               ELSE /\ events' = remove(events, id)
                    /\ response' = Response("200", get(events, id))
            /\ UNCHANGED locations
            /\ UNCHANGED << pages, workers >>

create_location ==
    \E new_location \in LocationValues, id \in LocationIds \ DOMAIN locations :
        /\ locations' = insert(locations, id, new_location)
        /\ request' = Request("create_location", None, new_location)
        /\ response' = Response("200", id)
        /\ UNCHANGED events
        /\ UNCHANGED << pages, workers >>

read_location ==
    \E uuid \in LocationIds :
        LET id == validate(locations, uuid)
        IN  /\ request' = Request("read_location", uuid, NoBody)
            /\ response' = IF id = None THEN Response("404", NoBody)
                           ELSE Response("200", get(locations, id))
            /\ UNCHANGED << locations, events >>
            /\ UNCHANGED << pages, workers >>

update_location ==
    \E uuid \in LocationIds, new_location \in LocationValues :
        LET id == validate(locations, uuid)
        IN  /\ request' = Request("update_location", uuid, new_location)
            /\ IF id = None
               THEN /\ response' = Response("404", NoBody)
                    /\ UNCHANGED locations
               ELSE /\ locations' = set(locations, id, new_location)
                    /\ response' = Response("200", get(locations', id))
            /\ UNCHANGED events
            /\ UNCHANGED << pages, workers >>

\* a handler that removes the validated id from the map itself, as delete_event
\* does, instead of asking the store to delete it
delete_location_unchecked ==
    \E uuid \in LocationIds :
        LET id == validate(locations, uuid)
        IN  /\ request' = Request("delete_location", uuid, NoBody)
            /\ IF id = None
               THEN /\ response' = Response("404", NoBody)
                    /\ UNCHANGED locations
               ELSE /\ locations' = remove(locations, id)
                    /\ response' = Response("200", get(locations, id))
            /\ UNCHANGED events
            /\ UNCHANGED << pages, workers >>

\* a handler that also validates the uuid against the Events map
delete_location_validates_events ==
    \E uuid \in LocationIds :
        LET id == IF uuid \in DOMAIN locations THEN validate(events, uuid) ELSE None
            deleted == Store_delete_location(locations, events, id)
        IN  /\ request' = Request("delete_location", uuid, NoBody)
            /\ IF id = None
               THEN /\ response' = Response("404", NoBody)
                    /\ UNCHANGED locations
               ELSE /\ locations' = deleted.locations
                    /\ response' = IF deleted.result.ok
                                   THEN Response("200", deleted.result.value)
                                   ELSE Response("409", deleted.result.value)
            /\ UNCHANGED events
            /\ UNCHANGED << pages, workers >>

delete_location ==
    \E uuid \in LocationIds :
        LET id == validate(locations, uuid)
            deleted == Store_delete_location(locations, events, id)
        IN  /\ request' = Request("delete_location", uuid, NoBody)
            /\ IF id = None
               THEN /\ response' = Response("404", NoBody)
                    /\ UNCHANGED locations
               ELSE /\ locations' = deleted.locations
                    /\ response' = IF deleted.result.ok
                                   THEN Response("200", deleted.result.value)
                                   ELSE Response("409", deleted.result.value)
            /\ UNCHANGED events
            /\ UNCHANGED << pages, workers >>

\* ------------------------------------ GraphQL mutations of src/store/mod.rs
Max(S) == CHOOSE x \in S : \A y \in S : y <= x

\* insert the row under a new random id, then answer with the greatest id
\* of the table (select id order by id desc, first row)
add_location ==
    \E new_location \in LocationValues, id \in LocationIds \ DOMAIN locations :
        /\ locations' = insert(locations, id, new_location)
        /\ request' = Request("Mutation::add_location", None, new_location)
        /\ response' = Response("200", Max(DOMAIN locations'))
        /\ UNCHANGED events
        /\ UNCHANGED << pages, workers >>

\* find(id).first().expect(..) panics when no row has the id
Mutation_update_location ==
    \E id_to_update \in LocationIds, new_location \in LocationValues :
        /\ request' = Request("Mutation::update_location", id_to_update, new_location)
        /\ IF id_to_update \notin DOMAIN locations
           THEN /\ response' = Response("panic", NoBody)
                /\ UNCHANGED locations
           ELSE /\ locations' = set(locations, id_to_update, new_location)
                /\ response' = Response("200", locations[id_to_update])
        /\ UNCHANGED events
        /\ UNCHANGED << pages, workers >>

remove_location ==
    \E id_to_remove \in LocationIds :
        /\ request' = Request("Mutation::remove_location", id_to_remove, NoBody)
        /\ IF id_to_remove \notin DOMAIN locations
           THEN /\ response' = Response("panic", NoBody)
                /\ UNCHANGED locations
           ELSE /\ locations' = remove(locations, id_to_remove)
                /\ response' = Response("200", locations[id_to_remove])
        /\ UNCHANGED events
        /\ UNCHANGED << pages, workers >>

Rest ==
    \/ create_event
    \/ read_event
    \/ update_event
    \/ delete_event
    \/ create_location
    \/ read_location
    \/ update_location
    \/ delete_location

\* the store as the REST handlers alone drive it
SpecRest == Init /\ [][Rest]_vars

Next ==
    \/ create_event
    \/ read_event
    \/ update_event
    \/ delete_event
    \/ create_location
    \/ read_location
    \/ update_location
    \/ delete_location
    \/ add_location
    \/ Mutation_update_location
    \/ remove_location

Spec == Init /\ [][Next]_vars

\* ------------------------------------------------------ schedule queries
date(instant) == instant \div MinutesPerDay

end(occurrence) == occurrence.start + occurrence.duration

\* OccurrenceFilter::upcoming(): the filter carries the instant it was made at
upcoming(instant) == [bounded |-> TRUE, after |-> instant]

\* the schedule of src/main.rs takes no filter
unfiltered == [bounded |-> FALSE, after |-> 0]

matches(filter, occurrence) ==
    ~filter.bounded \/ end(occurrence) >= filter.after

\* an occurrence is addressed by its event's id and its place in the event
positions(evs) ==
    UNION {{<< e, i >> : i \in DOMAIN evs[e].occurrences} : e \in DOMAIN evs}

occurrence_at(evs, p) == evs[p[1]].occurrences[p[2]]

\* by start alone; the occurrences of one event keep their places
before_by_start(evs, p, q) ==
    LET a == occurrence_at(evs, p).start
        b == occurrence_at(evs, q).start
    IN  \/ a < b
        \/ a = b /\ p[1] = q[1] /\ p[2] < q[2]

\* order of the entries of one date: by start, then by event id, then by place
before(evs, p, q) ==
    LET a == occurrence_at(evs, p).start
        b == occurrence_at(evs, q).start
    IN  \/ a < b
        \/ a = b /\ p[1] < q[1]
        \/ a = b /\ p[1] = q[1] /\ p[2] < q[2]

RECURSIVE sorted(_, _)
sorted(evs, S) ==
    IF S = {} THEN << >>
    ELSE LET first == CHOOSE p \in S : \A q \in S \ {p} : before(evs, p, q)
         IN  << first >> \o sorted(evs, S \ {first})

RECURSIVE ascending(_)
ascending(S) ==
    IF S = {} THEN << >>
    ELSE LET least == CHOOSE x \in S : \A y \in S : x <= y
         IN  << least >> \o ascending(S \ {least})

\* storage order: by event id, then by place in the event
RECURSIVE stored(_)
stored(S) ==
    IF S = {} THEN << >>
    ELSE LET first == CHOOSE p \in S : \A q \in S \ {p} :
                          p[1] < q[1] \/ (p[1] = q[1] /\ p[2] < q[2])
         IN  << first >> \o stored(S \ {first})

OccurrenceWithEvent(evs, p) ==
    [occurrence |-> occurrence_at(evs, p),
     event_id |-> p[1],
     event |-> [title |-> evs[p[1]].title]]

\* the orders in which iterating a HashMap may hand out its keys
iteration_orders(map) ==
    {order \in [1..Cardinality(DOMAIN map) -> DOMAIN map] :
        \A i, j \in DOMAIN order : i # j => order[i] # order[j]}

\* the occurrences as iterating the events map in that order yields them
RECURSIVE iterated(_, _)
iterated(evs, order) ==
    IF order = << >> THEN << >>
    ELSE [i \in DOMAIN evs[Head(order)].occurrences |-> << Head(order), i >>]
         \o iterated(evs, Tail(order))

\* stable sort: each element goes behind the ones it is not before
RECURSIVE sort(_, _)
sort(evs, seq) ==
    IF seq = << >> THEN << >>
    ELSE LET last == seq[Len(seq)]
             rest == sort(evs, SubSeq(seq, 1, Len(seq) - 1))
             k == Cardinality({i \in DOMAIN rest : ~before(evs, last, rest[i])})
         IN  SubSeq(rest, 1, k) \o << last >> \o SubSeq(rest, k + 1, Len(rest))

\* groups in date order, but the entries of a group as the maps hold them
occurrences_by_date_unsorted(evs, filter, order) ==
    LET matching == {p \in positions(evs) : matches(filter, occurrence_at(evs, p))}
        dates == ascending({date(occurrence_at(evs, p).start) : p \in matching})
    IN  [g \in 1..Len(dates) |->
            LET entries == stored({p \in matching :
                                   date(occurrence_at(evs, p).start) = dates[g]})
            IN  [date |-> dates[g],
                 entries |-> [k \in 1..Len(entries) |->
                                 OccurrenceWithEvent(evs, entries[k])]]]

\* the matching occurrences of all events, collected by iterating the events
\* map, sorted and grouped by the date of their start
occurrences_by_date(evs, filter, order) ==
    LET matching == SelectSeq(iterated(evs, order),
                              LAMBDA p : matches(filter, occurrence_at(evs, p)))
        by_start == sort(evs, matching)
        dates == ascending({date(occurrence_at(evs, by_start[k]).start) :
                               k \in DOMAIN by_start})
    IN  [g \in 1..Len(dates) |->
            LET entries == SelectSeq(by_start,
                               LAMBDA p : date(occurrence_at(evs, p).start) = dates[g])
            IN  [date |-> dates[g],
                 entries |-> [k \in 1..Len(entries) |->
                                 OccurrenceWithEvent(evs, entries[k])]]]

\* every event with its matching occurrences in the order the event holds them
all_events_with_occurrences_unsorted(evs, filter) ==
    [e \in DOMAIN evs |->
        LET kept == stored({p \in positions(evs) :
                          p[1] = e /\ matches(filter, occurrence_at(evs, p))})
        IN  [event |-> [title |-> evs[e].title],
             occurrences |-> [k \in 1..Len(kept) |-> occurrence_at(evs, kept[k])]]]

\* every event of the store, each with its matching occurrences by start
all_events_with_occurrences(evs, filter) ==
    [e \in DOMAIN evs |->
        LET kept == sorted(evs, {p \in positions(evs) :
                          p[1] = e /\ matches(filter, occurrence_at(evs, p))})
        IN  [event |-> [title |-> evs[e].title],
             occurrences |-> [k \in 1..Len(kept) |-> occurrence_at(evs, kept[k])]]]

\* ------------------------------------------------------------ the pages
\* a page that renders every occurrence, elapsed or not
occurrence_overview_unfiltered ==
    /\ \E order \in iteration_orders(events) :
          schedule' = Page(upcoming(now), occurrences_by_date(events, unfiltered, order))
    /\ UNCHANGED << store, request, response, now, overview, workers >>

\* GET / of src/website.rs
occurrence_overview ==
    /\ \E order \in iteration_orders(events) :
          schedule' = Page(upcoming(now),
                           occurrences_by_date(events, upcoming(now), order))
    /\ UNCHANGED << store, request, response, now, overview, workers >>

\* GET / of src/main.rs
index ==
    /\ \E order \in iteration_orders(events) :
          schedule' = Page(unfiltered, occurrences_by_date(events, unfiltered, order))
    /\ UNCHANGED << store, request, response, now, overview, workers >>

\* render_event of src/website.rs shows at most this many occurrences
preview_length == 5

\* overflow checks are on in a debug build and off in a release build
Builds == {"debug", "release"}

\* a - b in usize: below zero a debug build panics and a release build wraps.
\* The wrapped result is 2^64 + (a - b), which is beyond the integers of the
\* model and is kept as the difference with the wrapped mark.
usize_sub(a, b, build) ==
    IF a >= b THEN [panicked |-> FALSE, wrapped |-> FALSE, value |-> a - b]
    ELSE IF build = "debug" THEN [panicked |-> TRUE, wrapped |-> FALSE, value |-> 0]
    ELSE [panicked |-> FALSE, wrapped |-> TRUE, value |-> a - b]

\* max(0, x) of two usize
usize_max_0(x) == x

\* x > 0 in usize
positive(x) == x.wrapped \/ x.value > 0

\* iter().take(n)
take(seq, n) == SubSeq(seq, 1, IF Len(seq) < n THEN Len(seq) ELSE n)

render_event(event_with_occurrences, build) ==
    LET occurrences == take(event_with_occurrences.occurrences, preview_length)
        difference == usize_sub(Len(event_with_occurrences.occurrences),
                                preview_length, build)
        remaining == usize_max_0(difference)
    IN  IF difference.panicked
        THEN [panicked |-> TRUE]
        ELSE [panicked |-> FALSE,
              title |-> event_with_occurrences.event.title,
              occurrences |-> occurrences,
              overflow |-> positive(remaining),
              remaining |-> remaining]

\* the events page: the query it ran, and the markup of every event or the
\* panic that ended the handler
EventsPage(filter, result, build) ==
    LET markup == [e \in DOMAIN result |-> render_event(result[e], build)]
    IN  [rendered |-> TRUE, filter |-> filter, result |-> result,
         panicked |-> \E e \in DOMAIN markup : markup[e].panicked,
         markup |-> markup]

event_overview_unfiltered ==
    /\ \E build \in Builds :
          overview' = EventsPage(upcoming(now),
                                 all_events_with_occurrences(events, unfiltered), build)
    /\ UNCHANGED << store, request, response, now, schedule, workers >>

\* GET /veranstaltungen of src/website.rs
event_overview ==
    /\ \E build \in Builds :
          overview' = EventsPage(upcoming(now),
                                 all_events_with_occurrences(events, upcoming(now)),
                                 build)
    /\ UNCHANGED << store, request, response, now, schedule, workers >>

\* Inputs of the queries: occurrences around one evening and the midnight after
\* it, stored in any order, and clock readings before, during and at the end
\* of them.
MaxOccurrences == 2

Evening == from_ymd(2019, 4, 2)

QueryOccurrences ==
    {Occurrence(and_hms(Evening, 20, 0, 0), 30, 1),
     Occurrence(and_hms(Evening, 20, 30, 0), 30, 1),
     Occurrence(and_hms(Evening, 23, 50, 0), 30, 2),
     Occurrence(and_hms(Evening + 1, 0, 10, 0), 30, 2)}

QueryNows ==
    {and_hms(Evening - 1, 0, 0, 0),
     and_hms(Evening, 20, 40, 0),
     and_hms(Evening, 21, 0, 0),
     and_hms(Evening + 1, 0, 20, 0)}

QueryEvents ==
    {Event("Workshop", occurrences) :
        occurrences \in UNION {[1..n -> QueryOccurrences] : n \in 0..MaxOccurrences}}
    \cup {SocialDance(1, 2), Anfaengerkurs(1, 2)}

InitQuery ==
    /\ locations = insert(insert(EmptyMap, 1, Location("Chico Mendes")),
                          2, Location("Sencillito"))
    /\ events \in UNION {[ids -> QueryEvents] : ids \in SUBSET SeedIds}
    /\ now \in QueryNows
    /\ request = Request("main", None, NoBody)
    /\ response = Response("-", NoBody)
    /\ schedule = NoPage
    /\ overview = NoPage
    /\ lock = Unlocked
    /\ handlers = [h \in Handlers |-> Idle]

NextQuery ==
    \/ occurrence_overview
    \/ index
    \/ event_overview

SpecQuery == InitQuery /\ [][NextQuery]_vars

\* ------------------------------------- the handlers under the RwLock
\* The handlers of src/main.rs step by step: each takes the lock first
\* (store.write() or store.read()), validates the uuid, uses the typed id, and
\* gives the lock back when it returns.  get, set and remove of an id that is
\* not in the map panic; a panic while writing poisons the lock, and unwrap()
\* of a poisoned lock panics.
At(h, op, pc) == handlers[h].op = op /\ handlers[h].pc = pc

goto(h, pc, id) == handlers' = [handlers EXCEPT ![h].pc = pc, ![h].id = id]

CanWriteAlways(h) == TRUE

CanWrite(h) == lock.writer = NoHandler /\ lock.readers = {}

CanReadAlways(h) == TRUE

CanRead(h) == lock.writer = NoHandler

write(h, op, pc) ==
    /\ handlers[h].pc = "idle"
    /\ CanWrite(h)
    /\ IF lock.poisoned
       THEN /\ handlers' = [handlers EXCEPT ![h] = Panicked]
            /\ UNCHANGED lock
       ELSE /\ handlers' = [handlers EXCEPT ![h] = [pc |-> pc, op |-> op, id |-> None]]
            /\ lock' = [lock EXCEPT !.writer = h]

read(h, op, pc) ==
    /\ handlers[h].pc = "idle"
    /\ CanRead(h)
    /\ IF lock.poisoned
       THEN /\ handlers' = [handlers EXCEPT ![h] = Panicked]
            /\ UNCHANGED lock
       ELSE /\ handlers' = [handlers EXCEPT ![h] = [pc |-> pc, op |-> op, id |-> None]]
            /\ lock' = [lock EXCEPT !.readers = @ \cup {h}]

released(h) ==
    [lock EXCEPT !.writer = IF @ = h THEN NoHandler ELSE @, !.readers = @ \ {h}]

return(h) ==
    /\ handlers' = [handlers EXCEPT ![h] = Idle]
    /\ lock' = released(h)

panic(h) ==
    /\ handlers' = [handlers EXCEPT ![h] = Panicked]
    /\ lock' = [released(h) EXCEPT !.poisoned = @ \/ lock.writer = h]

\* validate(uuid): on to the use of the typed id, or the not-found answer
validated(h, map, raw_ids, pc) ==
    \E uuid \in raw_ids :
        IF validate(map, uuid) = None THEN return(h)
        ELSE /\ goto(h, pc, validate(map, uuid))
             /\ UNCHANGED lock

create_event_steps(h) ==
    \/ /\ write(h, "create_event", "insert")
       /\ UNCHANGED store
       /\ UNCHANGED served
    \/ /\ At(h, "create_event", "insert")
       /\ \E new_event \in NewEvents, id \in EventIds \ DOMAIN events :
              events' = insert(events, id, new_event)
       /\ return(h)
       /\ UNCHANGED locations
       /\ UNCHANGED served

read_event_steps(h) ==
    \/ /\ read(h, "read_event", "validate")
       /\ UNCHANGED store
       /\ UNCHANGED served
    \/ /\ At(h, "read_event", "validate")
       /\ validated(h, events, EventIds, "get")
       /\ UNCHANGED store
       /\ UNCHANGED served
    \/ /\ At(h, "read_event", "get")
       /\ IF handlers[h].id \in DOMAIN events THEN return(h) ELSE panic(h)
       /\ UNCHANGED store
       /\ UNCHANGED served

update_event_steps(h) ==
    \/ /\ write(h, "update_event", "validate")
       /\ UNCHANGED store
       /\ UNCHANGED served
    \/ /\ At(h, "update_event", "validate")
       /\ validated(h, events, EventIds, "set")
       /\ UNCHANGED store
       /\ UNCHANGED served
    \/ /\ At(h, "update_event", "set")
       /\ IF handlers[h].id \in DOMAIN events
          THEN /\ \E new_event \in NewEvents :
                     events' = set(events, handlers[h].id, new_event)
               /\ goto(h, "get", handlers[h].id)
               /\ UNCHANGED lock
          ELSE /\ panic(h)
               /\ UNCHANGED events
       /\ UNCHANGED locations
       /\ UNCHANGED served
    \/ /\ At(h, "update_event", "get")
       /\ IF handlers[h].id \in DOMAIN events THEN return(h) ELSE panic(h)
       /\ UNCHANGED store
       /\ UNCHANGED served

delete_event_steps(h) ==
    \/ /\ write(h, "delete_event", "validate")
       /\ UNCHANGED store
       /\ UNCHANGED served
    \/ /\ At(h, "delete_event", "validate")
       /\ validated(h, events, EventIds, "remove")
       /\ UNCHANGED store
       /\ UNCHANGED served
    \/ /\ At(h, "delete_event", "remove")
       /\ IF handlers[h].id \in DOMAIN events
          THEN /\ events' = remove(events, handlers[h].id)
               /\ return(h)
          ELSE /\ panic(h)
               /\ UNCHANGED events
       /\ UNCHANGED locations
       /\ UNCHANGED served

create_location_steps(h) ==
    \/ /\ write(h, "create_location", "insert")
       /\ UNCHANGED store
       /\ UNCHANGED served
    \/ /\ At(h, "create_location", "insert")
       /\ \E new_location \in LocationValues, id \in LocationIds \ DOMAIN locations :
              locations' = insert(locations, id, new_location)
       /\ return(h)
       /\ UNCHANGED events
       /\ UNCHANGED served

read_location_steps(h) ==
    \/ /\ read(h, "read_location", "validate")
       /\ UNCHANGED store
       /\ UNCHANGED served
    \/ /\ At(h, "read_location", "validate")
       /\ validated(h, locations, LocationIds, "get")
       /\ UNCHANGED store
       /\ UNCHANGED served
    \/ /\ At(h, "read_location", "get")
       /\ IF handlers[h].id \in DOMAIN locations THEN return(h) ELSE panic(h)
       /\ UNCHANGED store
       /\ UNCHANGED served

update_location_steps(h) ==
    \/ /\ write(h, "update_location", "validate")
       /\ UNCHANGED store
       /\ UNCHANGED served
    \/ /\ At(h, "update_location", "validate")
       /\ validated(h, locations, LocationIds, "set")
       /\ UNCHANGED store
       /\ UNCHANGED served
    \/ /\ At(h, "update_location", "set")
       /\ IF handlers[h].id \in DOMAIN locations
          THEN /\ \E new_location \in LocationValues :
                     locations' = set(locations, handlers[h].id, new_location)
               /\ goto(h, "get", handlers[h].id)
               /\ UNCHANGED lock
          ELSE /\ panic(h)
               /\ UNCHANGED locations
       /\ UNCHANGED events
       /\ UNCHANGED served
    \/ /\ At(h, "update_location", "get")
       /\ IF handlers[h].id \in DOMAIN locations THEN return(h) ELSE panic(h)
       /\ UNCHANGED store
       /\ UNCHANGED served

\* Store::delete_location in its two halves: the scan for dependent events,
\* then the removal
delete_location_steps(h) ==
    \/ /\ write(h, "delete_location", "validate")
       /\ UNCHANGED store
       /\ UNCHANGED served
    \/ /\ At(h, "delete_location", "validate")
       /\ validated(h, locations, LocationIds, "scan")
       /\ UNCHANGED store
       /\ UNCHANGED served
    \/ /\ At(h, "delete_location", "scan")
       /\ IF dependent_events(events, handlers[h].id) # {}
          THEN return(h)
          ELSE /\ goto(h, "remove", handlers[h].id)
               /\ UNCHANGED lock
       /\ UNCHANGED store
       /\ UNCHANGED served
    \/ /\ At(h, "delete_location", "remove")
       /\ IF handlers[h].id \in DOMAIN locations
          THEN /\ locations' = remove(locations, handlers[h].id)
               /\ return(h)
          ELSE /\ panic(h)
               /\ UNCHANGED locations
       /\ UNCHANGED events
       /\ UNCHANGED served

NextConc ==
    \E h \in Handlers :
        \/ create_event_steps(h)
        \/ read_event_steps(h)
        \/ update_event_steps(h)
        \/ delete_event_steps(h)
        \/ create_location_steps(h)
        \/ read_location_steps(h)
        \/ update_location_steps(h)
        \/ delete_location_steps(h)

SpecConc == Init /\ [][NextConc]_vars

\* ================================================================ claims
\* the events owning an occurrence at location L, read off the Events map
OwnersOf(L) ==
    {e \in DOMAIN events :
        \E i \in DOMAIN events[e].occurrences : events[e].occurrences[i].location_id = L}

IsDeleteLocation(op) == op \in {"delete_location", "Mutation::remove_location"}

\* C1: deleting a Location that some Occurrence references is refused: the
\* answer is the conflict carrying exactly the ids of the Events that own an
\* occurrence at it, and neither map changes.
C1_DeleteReferencedRefused ==
    [][\A L \in DOMAIN locations :
          (IsDeleteLocation(request'.op) /\ request'.uuid = L /\ OwnersOf(L) # {})
          => /\ response'.status = "409"
             /\ response'.body = OwnersOf(L)
             /\ locations' = locations
             /\ events' = events]_vars

\* C2: delete_location of a present Location that no Occurrence references
\* answers with the value stored under it, removes exactly that entry, and the
\* raw id no longer validates.
C2_DeleteUnreferenced ==
    [][\A L \in DOMAIN locations :
          (request'.op = "delete_location" /\ request'.uuid = L /\ OwnersOf(L) = {})
          => /\ response'.status = "200"
             /\ response'.body = locations[L]
             /\ DOMAIN locations' = DOMAIN locations \ {L}
             /\ \A k \in DOMAIN locations' : locations'[k] = locations[k]
             /\ events' = events
             /\ validate(locations', L) = None]_vars

C2_Witness ==
    /\ request.op = "delete_location"
    /\ response.status = "200"
    /\ request.uuid \notin DOMAIN locations
    /\ locations # EmptyMap

Dangling(evs, locs) ==
    {e \in DOMAIN evs :
        \E i \in DOMAIN evs[e].occurrences :
            evs[e].occurrences[i].location_id \notin DOMAIN locs}

\* C3 as stated: in every reachable state every Occurrence's location_id is a
\* key of the Locations map.
C3_ReferentialIntegrity == Dangling(events, locations) = {}

\* C3 amended: no operation removes a Location that an Occurrence references:
\* a location id that is a key before a step and is referenced after the step
\* is still a key after it.
C3_NoReferencedLocationRemoved ==
    [][\A e \in DOMAIN events' : \A i \in DOMAIN events'[e].occurrences :
          LET l == events'[e].occurrences[i].location_id
          IN  l \in DOMAIN locations => l \in DOMAIN locations']_vars

C3_Witness ==
    /\ request.op = "delete_location"
    /\ response.status = "409"
    /\ Dangling(events, locations) # {}
    /\ Dangling(events, locations) # DOMAIN events

\* C4: validate succeeds exactly for the ids currently in the map: an id
\* returned by insert validates from then on, an id that was removed no longer
\* does, every other id validates as before, and read answers 200 exactly for
\* the keys.
ValidatesAfter(map_before, map_after, raw, insert_op, remove_op) ==
    (validate(map_after, raw) # None) <=>
        IF request'.op = insert_op /\ response'.body = raw THEN TRUE
        ELSE IF request'.op = remove_op /\ response'.status = "200"
                /\ request'.uuid = raw THEN FALSE
        ELSE validate(map_before, raw) # None

C4_ValidateIffPresent ==
    [][/\ \A raw \in EventIds :
             /\ ValidatesAfter(events, events', raw, "create_event", "delete_event")
             /\ (request'.op = "read_event" /\ request'.uuid = raw)
                => (response'.status = "200" <=> validate(events, raw) # None)
       /\ \A raw \in LocationIds :
             /\ ValidatesAfter(locations, locations', raw,
                               "create_location", "delete_location")
             /\ (request'.op = "read_location" /\ request'.uuid = raw)
                => (response'.status = "200" <=> validate(locations, raw) # None)]_vars

C4_Witness ==
    /\ request.op = "delete_event"
    /\ response.status = "200"
    /\ validate(events, request.uuid) = None
    /\ events # EmptyMap

TargetMap(op) ==
    IF op \in {"read_event", "update_event", "delete_event"} THEN events
    ELSE locations

ByRawId ==
    {"read_event", "update_event", "delete_event",
     "read_location", "update_location", "delete_location",
     "Mutation::update_location", "Mutation::remove_location"}

\* C9: read, update and delete with a raw id that is not a key of the target
\* map answer not-found (404, which is not the 409 of a conflict and not a
\* panic) and leave both maps as they were.
C9_NotFoundNeverFatal ==
    [][(request'.op \in ByRawId /\ request'.uuid \notin DOMAIN TargetMap(request'.op))
          => /\ response'.status = "404"
             /\ locations' = locations
             /\ events' = events]_vars

IsInsertLocation(op) == op \in {"create_location", "Mutation::add_location"}

\* C10: the id an insert answers with is the key under which the value was
\* just stored, and it was not a key before the insert.
C10_InsertReturnsKeyOfValue ==
    [][/\ IsInsertLocation(request'.op)
          => /\ response'.body \notin DOMAIN locations
             /\ response'.body \in DOMAIN locations'
             /\ get(locations', response'.body) = request'.body
       /\ request'.op = "create_event"
          => /\ response'.body \notin DOMAIN events
             /\ response'.body \in DOMAIN events'
             /\ get(events', response'.body) = request'.body]_vars

\* ---------------------------------------------------------------- queries
\* how often the schedule lists occurrence o of event e
ListedInSchedule(e, o) ==
    Cardinality({gk \in UNION {{<< g, k >> : k \in DOMAIN schedule.result[g].entries} :
                                g \in DOMAIN schedule.result} :
                    LET entry == schedule.result[gk[1]].entries[gk[2]]
                    IN  entry.event_id = e /\ entry.occurrence = o})

\* how often event e holds occurrence o
HeldBy(e, o) ==
    IF e \in DOMAIN events
    THEN Cardinality({i \in DOMAIN events[e].occurrences : events[e].occurrences[i] = o})
    ELSE 0

OccurrencesHeld ==
    UNION {{events[e].occurrences[i] : i \in DOMAIN events[e].occurrences} :
            e \in DOMAIN events}

\* C6: the groups of occurrences_by_date are strictly ascending by date, every
\* entry starts on its group's date, the entries of a group ascend by start,
\* and every occurrence that passes the filter is listed exactly once while
\* none that fails it is listed.
C6_GroupedAndSorted ==
    schedule.rendered =>
        LET groups == schedule.result
        IN  /\ \A g \in DOMAIN groups, h \in DOMAIN groups :
                  g < h => groups[g].date < groups[h].date
            /\ \A g \in DOMAIN groups : \A k \in DOMAIN groups[g].entries :
                  /\ groups[g].entries[k].occurrence.start \div (24 * 60) = groups[g].date
                  /\ groups[g].entries[k].event_id \in DOMAIN events
                  /\ groups[g].entries[k].occurrence \in OccurrencesHeld
                  /\ \A l \in DOMAIN groups[g].entries :
                        k < l => groups[g].entries[k].occurrence.start
                                 <= groups[g].entries[l].occurrence.start
            /\ \A e \in DOMAIN events : \A o \in OccurrencesHeld :
                  ListedInSchedule(e, o) =
                      IF matches(schedule.filter, o) THEN HeldBy(e, o) ELSE 0

\* two dates, a date with two starts that the event stores later-first, and an
\* occurrence the filter drops
C6_Witness ==
    /\ schedule.rendered
    /\ Len(schedule.result) >= 2
    /\ \E g \in DOMAIN schedule.result :
          /\ Len(schedule.result[g].entries) >= 2
          /\ schedule.result[g].entries[1].occurrence.start
             < schedule.result[g].entries[2].occurrence.start
    /\ \E e \in DOMAIN events :
          /\ Len(events[e].occurrences) >= 2
          /\ events[e].occurrences[1].start > events[e].occurrences[2].start
          /\ date(events[e].occurrences[1].start) = date(events[e].occurrences[2].start)
          /\ matches(schedule.filter, events[e].occurrences[1])
          /\ matches(schedule.filter, events[e].occurrences[2])
    /\ \E o \in OccurrencesHeld : ~matches(schedule.filter, o)

\* C7: upcoming() matches an occurrence exactly when its end, start plus
\* duration minutes, is at or after the filter's instant; so it matches one in
\* progress and one that ends at that very instant.
C7_UpcomingByEnd ==
    (schedule.rendered /\ schedule.filter.bounded) =>
        \A e \in DOMAIN events : \A o \in OccurrencesHeld :
            HeldBy(e, o) > 0 =>
                (ListedInSchedule(e, o) > 0 <=>
                    o.start + o.duration >= schedule.filter.after)

C7_Witness ==
    /\ schedule.rendered
    /\ schedule.filter.bounded
    /\ \E e \in DOMAIN events : \E o \in OccurrencesHeld :
          /\ o.start + o.duration = schedule.filter.after
          /\ ListedInSchedule(e, o) > 0
    /\ \E e \in DOMAIN events : \E o \in OccurrencesHeld :
          /\ o.start < schedule.filter.after
          /\ schedule.filter.after < o.start + o.duration
          /\ ListedInSchedule(e, o) > 0

\* whether the events page lists occurrence o under event e
ListedInOverview(e, o) ==
    /\ e \in DOMAIN overview.result
    /\ \E k \in DOMAIN overview.result[e].occurrences :
          overview.result[e].occurrences[k] = o

InHandler(h) == handlers[h].pc \notin {"idle", "panicked"}

\* C5: delete_location's scan and its removal are one atomic step for every
\* other mutator: while a delete_location is between taking the lock and
\* returning, no other handler is inside its own critical section, and once its
\* scan has found no dependent event none appears before the removal, so the
\* Location it removes is present and referenced by no occurrence.
C5_ScanAndRemovalAtomic ==
    \A h \in Handlers :
        (handlers[h].op = "delete_location" /\ InHandler(h))
        => /\ \A other \in Handlers \ {h} : ~InHandler(other)
           /\ handlers[h].pc = "remove"
              => /\ handlers[h].id \in DOMAIN locations
                 /\ OwnersOf(handlers[h].id) = {}

\* a delete_location about to remove a location after other handlers have
\* stored an event of their own
C5_Witness ==
    \E h \in Handlers :
        /\ At(h, "delete_location", "remove")
        /\ \E e \in DOMAIN events : events[e].title = "Workshop"
        /\ Dangling(events, locations) = {}
        /\ OwnersOf(handlers[h].id) = {}

\* ------------------------------------------------------- the events page
\* how often the events page lists occurrence o under event e
CountInOverview(e, o) ==
    Cardinality({k \in DOMAIN overview.result[e].occurrences :
                    overview.result[e].occurrences[k] = o})

\* C11: all_events_with_occurrences answers with a mapping whose keys are ids
\* of events of the store; under each key are exactly that event's occurrences
\* that pass the filter, each as often as the event holds it and none of
\* another event, ascending by start whatever order the event stores them in.
C11_EventsWithTheirOccurrences ==
    overview.rendered =>
        /\ DOMAIN overview.result \subseteq DOMAIN events
        /\ \A e \in DOMAIN overview.result :
              LET listed == overview.result[e].occurrences
              IN  /\ \A k \in DOMAIN listed :
                        /\ HeldBy(e, listed[k]) > 0
                        /\ \A l \in DOMAIN listed :
                              k < l => listed[k].start <= listed[l].start
                  /\ \A o \in OccurrencesHeld :
                        CountInOverview(e, o) =
                            IF o.start + o.duration >= overview.filter.after
                            THEN HeldBy(e, o) ELSE 0

\* an event that stores the later of two listed occurrences first, and an
\* event that loses an occurrence to the filter while another event keeps its own
C11_Witness ==
    /\ overview.rendered
    /\ \E e \in DOMAIN overview.result :
          /\ Len(events[e].occurrences) = 2
          /\ events[e].occurrences[1].start > events[e].occurrences[2].start
          /\ Len(overview.result[e].occurrences) = 2
    /\ \E e \in DOMAIN overview.result :
          /\ Len(events[e].occurrences) > Len(overview.result[e].occurrences)
          /\ Len(overview.result[e].occurrences) > 0

\* ------------------------------------------- validated ids stay present
\* the map a handler's typed id belongs to
MapOf(op) ==
    IF op \in {"create_event", "read_event", "update_event", "delete_event"}
    THEN events ELSE locations

\* the steps at which a handler uses the typed id validate gave it
UsesId(h) == handlers[h].pc \in {"get", "set", "scan", "remove"}

\* C12: under every interleaving of the request handlers, get, set and remove
\* are only ever executed with an id that is in the map at that moment: from a
\* handler's successful validate to its use of the typed id no other handler's
\* removal takes effect, so no handler panics and the lock is never poisoned.
C12_ValidatedIdStaysPresent ==
    /\ ~lock.poisoned
    /\ \A h \in Handlers :
          /\ handlers[h].pc # "panicked"
          /\ UsesId(h) => handlers[h].id \in DOMAIN MapOf(handlers[h].op)

\* two readers between validate and get at once, after a location was removed
C12_Witness ==
    \E h \in Handlers : \E other \in Handlers \ {h} :
        /\ At(h, "read_location", "get")
        /\ At(other, "read_location", "get")
        /\ handlers[h].id \in DOMAIN locations
        /\ Cardinality(DOMAIN locations) < NumLocationIds

\* ------------------------------------------------ ties within a date group
\* C13: occurrences_by_date is deterministic on equal input: whatever order
\* the events map hands its entries out in, the same events and the same filter
\* give the same sequence, and entries of one date group with an identical
\* start stand in the order of their event ids.
C13_SameResultInAnyMapOrder ==
    schedule.rendered =>
        /\ \A order \in iteration_orders(events) :
              occurrences_by_date(events, schedule.filter, order) = schedule.result
        /\ \A g \in DOMAIN schedule.result :
              LET entries == schedule.result[g].entries
              IN  \A k, l \in DOMAIN entries :
                      (k < l /\ entries[k].occurrence.start = entries[l].occurrence.start)
                      => entries[k].event_id <= entries[l].event_id

\* a date group that holds occurrences of two events with an identical start
C13_Witness ==
    /\ schedule.rendered
    /\ Cardinality(iteration_orders(events)) > 1
    /\ \E g \in DOMAIN schedule.result :
          LET entries == schedule.result[g].entries
          IN  \E k, l \in DOMAIN entries :
                  /\ k < l
                  /\ entries[k].occurrence.start = entries[l].occurrence.start
                  /\ entries[k].event_id < entries[l].event_id

\* ------------------------------------------------- the preview of an event
\* C14: for every event with n filtered occurrences, n < 5 included,
\* render_event lists exactly min(n, 5) occurrences and shows the overflow
\* indicator if and only if n > 5, with k = n - 5; computing remaining never
\* wraps and never aborts.
C14_PreviewAndOverflow ==
    overview.rendered =>
        /\ ~overview.panicked
        /\ \A e \in DOMAIN overview.result :
              LET n == Len(overview.result[e].occurrences)
                  shown == overview.markup[e]
              IN  /\ Len(shown.occurrences) = (IF n < 5 THEN n ELSE 5)
                  /\ shown.overflow <=> n > 5
                  /\ ~shown.remaining.wrapped
                  /\ shown.overflow => shown.remaining.value = n - 5

====
